---------------------------- MODULE Spec2Model ----------------------------
(***************************************************************************)
(* Section classifier of the mortgage package analyzer                     *)
(* (analyze_mortgage_sections in app.py).                                  *)
(*                                                                         *)
(* A Python str is modelled as a sequence of one-character strings, so     *)
(* that upper(), strip(), split(), slicing and the substring test "in"     *)
(* are computed character by character as Python computes them.            *)
(***************************************************************************)
EXTENDS Integers, Sequences, FiniteSets, TLC

----------------------------------------------------------------------------
(* Bounds of the model                                                     *)

\* Longest fragment sequence handed to the classifier.
MaxFragments == 3

\* Fragments carry a page number in 1..MaxPage.
MaxPage == 2

\* Calls of analyze_mortgage_sections on the same fragment sequence.
MaxCalls == 2

\* The page numbers of the single-fragment inputs are in 1..MaxSinglePage.
MaxSinglePage == 6

\* Longest fragment sequence of an invocation that runs beside another, and
\* the page numbers of its fragments.
MaxConcurrentFragments == 2
MaxConcurrentPage == 1

----------------------------------------------------------------------------
(* Python str operations                                                   *)

UpperCase ==
  <<"A","B","C","D","E","F","G","H","I","J","K","L","M",
    "N","O","P","Q","R","S","T","U","V","W","X","Y","Z">>

LowerCase ==
  <<"a","b","c","d","e","f","g","h","i","j","k","l","m",
    "n","o","p","q","r","s","t","u","v","w","x","y","z">>

\* The characters of the model in code point order: Python compares str
\* values code point by code point.
CodePointOrder ==
  <<" ", "'", "-", "0","1","2","3","4","5","6","7","8","9">>
    \o UpperCase \o LowerCase

Characters == {CodePointOrder[k] : k \in 1..Len(CodePointOrder)}

ord == [c \in Characters |->
          CHOOSE k \in 1..Len(CodePointOrder) : CodePointOrder[k] = c]

\* str.upper() on one character.
upper_char == [c \in Characters |->
                 IF \E k \in 1..Len(LowerCase) : LowerCase[k] = c
                 THEN UpperCase[CHOOSE k \in 1..Len(LowerCase) : LowerCase[k] = c]
                 ELSE c]

\* s.upper()
str_upper(s) == [k \in 1..Len(s) |-> upper_char[s[k]]]

isspace(c) == c = " "

\* s.strip(): s without its leading and trailing whitespace.
str_strip(s) ==
  LET solid == {k \in 1..Len(s) : ~isspace(s[k])}
  IN  IF solid = {} THEN <<>>
      ELSE LET first == CHOOSE k \in solid : \A j \in solid : k <= j
               last  == CHOOSE k \in solid : \A j \in solid : j <= k
           IN  SubSeq(s, first, last)

\* len(s.split()): the number of maximal runs of non-whitespace characters.
len_split(s) ==
  Cardinality({k \in 1..Len(s) :
                 ~isspace(s[k]) /\ (k = 1 \/ isspace(s[k - 1]))})

\* pattern in text: pattern occurs in text as a contiguous substring.
str_in(pattern, text) ==
  \E off \in 0..(Len(text) - Len(pattern)) :
     \A j \in 1..Len(pattern) : text[off + j] = pattern[j]

\* s[:n]
str_prefix(s, n) == SubSeq(s, 1, IF Len(s) < n THEN Len(s) ELSE n)

\* a < b for two str values (lexicographic by code point).
RECURSIVE str_lt(_, _)
str_lt(a, b) ==
  IF b = <<>> THEN FALSE
  ELSE IF a = <<>> THEN TRUE
  ELSE IF a[1] # b[1] THEN ord[a[1]] < ord[b[1]]
  ELSE str_lt(Tail(a), Tail(b))

----------------------------------------------------------------------------
(* The rule catalog (section_rules, lines 177-207)                         *)

section_rules ==
  <<
     \* line 179: Mortgage (priority 10): MORTGAGE | DEED OF TRUST | SECURITY INSTRUMENT
     [patterns |-> <<<<"M","O","R","T","G","A","G","E">>,
                     <<"D","E","E","D"," ","O","F"," ","T","R","U","S","T">>,
                     <<"S","E","C","U","R","I","T","Y"," ","I","N","S","T","R","U","M","E","N","T">>>>,
      label |-> <<"M","o","r","t","g","a","g","e">>,
      priority |-> 10],
     \* line 180: Promissory Note (priority 10): PROMISSORY NOTE | NOTE
     [patterns |-> <<<<"P","R","O","M","I","S","S","O","R","Y"," ","N","O","T","E">>,
                     <<"N","O","T","E">>>>,
      label |-> <<"P","r","o","m","i","s","s","o","r","y"," ","N","o","t","e">>,
      priority |-> 10],
     \* line 183: Lenders Closing Instructions Guaranty (priority 9): LENDERS CLOSING INSTRUCTIONS | CLOSING INSTRUCTIONS GUARANTY | LENDER'S CLOSING INSTRUCTIONS
     [patterns |-> <<<<"L","E","N","D","E","R","S"," ","C","L","O","S","I","N","G"," ","I","N","S","T","R","U","C","T","I","O","N","S">>,
                     <<"C","L","O","S","I","N","G"," ","I","N","S","T","R","U","C","T","I","O","N","S"," ","G","U","A","R","A","N","T","Y">>,
                     <<"L","E","N","D","E","R","'","S"," ","C","L","O","S","I","N","G"," ","I","N","S","T","R","U","C","T","I","O","N","S">>>>,
      label |-> <<"L","e","n","d","e","r","s"," ","C","l","o","s","i","n","g"," ","I","n","s","t","r","u","c","t","i","o","n","s"," ","G","u","a","r","a","n","t","y">>,
      priority |-> 9],
     \* line 184: Settlement Statement (priority 9): SETTLEMENT STATEMENT | HUD-1 | CLOSING DISCLOSURE
     [patterns |-> <<<<"S","E","T","T","L","E","M","E","N","T"," ","S","T","A","T","E","M","E","N","T">>,
                     <<"H","U","D","-","1">>,
                     <<"C","L","O","S","I","N","G"," ","D","I","S","C","L","O","S","U","R","E">>>>,
      label |-> <<"S","e","t","t","l","e","m","e","n","t"," ","S","t","a","t","e","m","e","n","t">>,
      priority |-> 9],
     \* line 187: Statement of Anti Coercion Florida (priority 8): STATEMENT OF ANTI COERCION | ANTI COERCION | ANTI-COERCION FLORIDA
     [patterns |-> <<<<"S","T","A","T","E","M","E","N","T"," ","O","F"," ","A","N","T","I"," ","C","O","E","R","C","I","O","N">>,
                     <<"A","N","T","I"," ","C","O","E","R","C","I","O","N">>,
                     <<"A","N","T","I","-","C","O","E","R","C","I","O","N"," ","F","L","O","R","I","D","A">>>>,
      label |-> <<"S","t","a","t","e","m","e","n","t"," ","o","f"," ","A","n","t","i"," ","C","o","e","r","c","i","o","n"," ","F","l","o","r","i","d","a">>,
      priority |-> 8],
     \* line 188: Correction Agreement and Limited Power of Attorney (priority 8): CORRECTION AGREEMENT | LIMITED POWER OF ATTORNEY | POWER OF ATTORNEY
     [patterns |-> <<<<"C","O","R","R","E","C","T","I","O","N"," ","A","G","R","E","E","M","E","N","T">>,
                     <<"L","I","M","I","T","E","D"," ","P","O","W","E","R"," ","O","F"," ","A","T","T","O","R","N","E","Y">>,
                     <<"P","O","W","E","R"," ","O","F"," ","A","T","T","O","R","N","E","Y">>>>,
      label |-> <<"C","o","r","r","e","c","t","i","o","n"," ","A","g","r","e","e","m","e","n","t"," ","a","n","d"," ","L","i","m","i","t","e","d"," ","P","o","w","e","r"," ","o","f"," ","A","t","t","o","r","n","e","y">>,
      priority |-> 8],
     \* line 189: All Purpose Acknowledgment (priority 8): ALL PURPOSE ACKNOWLEDGMENT | ACKNOWLEDGMENT | NOTARY ACKNOWLEDGMENT
     [patterns |-> <<<<"A","L","L"," ","P","U","R","P","O","S","E"," ","A","C","K","N","O","W","L","E","D","G","M","E","N","T">>,
                     <<"A","C","K","N","O","W","L","E","D","G","M","E","N","T">>,
                     <<"N","O","T","A","R","Y"," ","A","C","K","N","O","W","L","E","D","G","M","E","N","T">>>>,
      label |-> <<"A","l","l"," ","P","u","r","p","o","s","e"," ","A","c","k","n","o","w","l","e","d","g","m","e","n","t">>,
      priority |-> 8],
     \* line 192: Flood Hazard Determination (priority 7): FLOOD HAZARD DETERMINATION | FLOOD DETERMINATION | FEMA FLOOD
     [patterns |-> <<<<"F","L","O","O","D"," ","H","A","Z","A","R","D"," ","D","E","T","E","R","M","I","N","A","T","I","O","N">>,
                     <<"F","L","O","O","D"," ","D","E","T","E","R","M","I","N","A","T","I","O","N">>,
                     <<"F","E","M","A"," ","F","L","O","O","D">>>>,
      label |-> <<"F","l","o","o","d"," ","H","a","z","a","r","d"," ","D","e","t","e","r","m","i","n","a","t","i","o","n">>,
      priority |-> 7],
     \* line 193: Insurance Policy (priority 7): INSURANCE POLICY | HOMEOWNER'S INSURANCE | HAZARD INSURANCE
     [patterns |-> <<<<"I","N","S","U","R","A","N","C","E"," ","P","O","L","I","C","Y">>,
                     <<"H","O","M","E","O","W","N","E","R","'","S"," ","I","N","S","U","R","A","N","C","E">>,
                     <<"H","A","Z","A","R","D"," ","I","N","S","U","R","A","N","C","E">>>>,
      label |-> <<"I","n","s","u","r","a","n","c","e"," ","P","o","l","i","c","y">>,
      priority |-> 7],
     \* line 196: Automatic Payments Authorization (priority 7): AUTOMATIC PAYMENTS AUTHORIZATION | AUTOMATIC PAYMENT | ACH AUTHORIZATION
     [patterns |-> <<<<"A","U","T","O","M","A","T","I","C"," ","P","A","Y","M","E","N","T","S"," ","A","U","T","H","O","R","I","Z","A","T","I","O","N">>,
                     <<"A","U","T","O","M","A","T","I","C"," ","P","A","Y","M","E","N","T">>,
                     <<"A","C","H"," ","A","U","T","H","O","R","I","Z","A","T","I","O","N">>>>,
      label |-> <<"A","u","t","o","m","a","t","i","c"," ","P","a","y","m","e","n","t","s"," ","A","u","t","h","o","r","i","z","a","t","i","o","n">>,
      priority |-> 7],
     \* line 197: Tax Record Information (priority 7): TAX RECORD INFORMATION | TAX RECORDS | PROPERTY TAX
     [patterns |-> <<<<"T","A","X"," ","R","E","C","O","R","D"," ","I","N","F","O","R","M","A","T","I","O","N">>,
                     <<"T","A","X"," ","R","E","C","O","R","D","S">>,
                     <<"P","R","O","P","E","R","T","Y"," ","T","A","X">>>>,
      label |-> <<"T","a","x"," ","R","e","c","o","r","d"," ","I","n","f","o","r","m","a","t","i","o","n">>,
      priority |-> 7],
     \* line 200: Title Policy (priority 6): TITLE POLICY | TITLE INSURANCE | OWNER'S POLICY
     [patterns |-> <<<<"T","I","T","L","E"," ","P","O","L","I","C","Y">>,
                     <<"T","I","T","L","E"," ","I","N","S","U","R","A","N","C","E">>,
                     <<"O","W","N","E","R","'","S"," ","P","O","L","I","C","Y">>>>,
      label |-> <<"T","i","t","l","e"," ","P","o","l","i","c","y">>,
      priority |-> 6],
     \* line 201: Deed (priority 6): DEED | WARRANTY DEED | QUITCLAIM DEED
     [patterns |-> <<<<"D","E","E","D">>,
                     <<"W","A","R","R","A","N","T","Y"," ","D","E","E","D">>,
                     <<"Q","U","I","T","C","L","A","I","M"," ","D","E","E","D">>>>,
      label |-> <<"D","e","e","d">>,
      priority |-> 6],
     \* line 204: UCC Filing (priority 5): UCC FILING | UCC-1 | FINANCING STATEMENT
     [patterns |-> <<<<"U","C","C"," ","F","I","L","I","N","G">>,
                     <<"U","C","C","-","1">>,
                     <<"F","I","N","A","N","C","I","N","G"," ","S","T","A","T","E","M","E","N","T">>>>,
      label |-> <<"U","C","C"," ","F","i","l","i","n","g">>,
      priority |-> 5],
     \* line 205: Signature Page (priority 5): SIGNATURE PAGE | SIGNATURES | BORROWER SIGNATURE
     [patterns |-> <<<<"S","I","G","N","A","T","U","R","E"," ","P","A","G","E">>,
                     <<"S","I","G","N","A","T","U","R","E","S">>,
                     <<"B","O","R","R","O","W","E","R"," ","S","I","G","N","A","T","U","R","E">>>>,
      label |-> <<"S","i","g","n","a","t","u","r","e"," ","P","a","g","e">>,
      priority |-> 5],
     \* line 206: Affidavit (priority 5): AFFIDAVIT | SWORN STATEMENT
     [patterns |-> <<<<"A","F","F","I","D","A","V","I","T">>,
                     <<"S","W","O","R","N"," ","S","T","A","T","E","M","E","N","T">>>>,
      label |-> <<"A","f","f","i","d","a","v","i","t">>,
      priority |-> 5]
  >>

\* text_snippet keeps this many characters of the fragment's text.
SnippetLength == 100

\* A fragment with at most this many words is a high confidence match.
ShortTextWords == 10

----------------------------------------------------------------------------
(* The fragment texts the inputs are drawn from                            *)

\* "PROMISSORY NOTE"  (15 characters, 2 words)
TextExactNote ==
  <<"P","R","O","M","I","S","S","O","R","Y"," ","N","O","T","E">>
\* "This deed of trust secures repayment of the note described herein"  (65 characters, 11 words)
TextDeedOfTrust ==
  <<"T","h","i","s"," ","d","e","e","d"," ","o","f"," ","t","r","u","s","t"," ","s",
    "e","c","u","r","e","s"," ","r","e","p","a","y","m","e","n","t"," ","o","f"," ",
    "t","h","e"," ","n","o","t","e"," ","d","e","s","c","r","i","b","e","d"," ","h",
    "e","r","e","i","n">>
\* "Mortgage and Promissory Note given by borrower to the lender"  (60 characters, 10 words)
TextMortgageAndNote ==
  <<"M","o","r","t","g","a","g","e"," ","a","n","d"," ","P","r","o","m","i","s","s",
    "o","r","y"," ","N","o","t","e"," ","g","i","v","e","n"," ","b","y"," ","b","o",
    "r","r","o","w","e","r"," ","t","o"," ","t","h","e"," ","l","e","n","d","e","r">>
\* "This Security Instrument is the mortgage given by the borrower to the lender and recorded in the public records of the county"  (125 characters, 22 words)
TextLongInstrument ==
  <<"T","h","i","s"," ","S","e","c","u","r","i","t","y"," ","I","n","s","t","r","u",
    "m","e","n","t"," ","i","s"," ","t","h","e"," ","m","o","r","t","g","a","g","e",
    " ","g","i","v","e","n"," ","b","y"," ","t","h","e"," ","b","o","r","r","o","w",
    "e","r"," ","t","o"," ","t","h","e"," ","l","e","n","d","e","r"," ","a","n","d",
    " ","r","e","c","o","r","d","e","d"," ","i","n"," ","t","h","e"," ","p","u","b",
    "l","i","c"," ","r","e","c","o","r","d","s"," ","o","f"," ","t","h","e"," ","c",
    "o","u","n","t","y">>
\* "Page 1 of 12"  (12 characters, 4 words)
TextPageFooter ==
  <<"P","a","g","e"," ","1"," ","o","f"," ","1","2">>

TextPool ==
  {TextExactNote, TextDeedOfTrust, TextMortgageAndNote,
   TextLongInstrument, TextPageFooter}

\* A fragment as the classifier reads it: item["text"] and item["page"].
Items == [text : TextPool, page : 1..MaxPage]

\* Every fragment sequence of at most MaxFragments fragments.
Inputs == UNION {[1..n -> Items] : n \in 0..MaxFragments}

----------------------------------------------------------------------------
(* Python dict, kept in insertion order as a sequence of (key, value)      *)

dict_has(d, k) == \E i \in 1..Len(d) : d[i].key = k

dict_index(d, k) == CHOOSE i \in 1..Len(d) : d[i].key = k

dict_get(d, k) == d[dict_index(d, k)].value

\* d[k] = v
dict_set(d, k, v) ==
  IF dict_has(d, k)
  THEN [d EXCEPT ![dict_index(d, k)].value = v]
  ELSE Append(d, [key |-> k, value |-> v])

\* list(d.values())
dict_values(d) == [i \in 1..Len(d) |-> d[i].value]

----------------------------------------------------------------------------
(* analyze_mortgage_sections                                               *)

\* confidence_rank.get(c, 0)
confidence_rank(c) ==
  CASE c = "high" -> 3
    [] c = "medium" -> 2
    [] c = "low" -> 1
    [] OTHER -> 0

\* determine_confidence with the word limit exclusive.
determine_confidence_under_limit(text, pattern, patterns) ==
  IF str_strip(text) = pattern THEN "high"
  ELSE IF str_in(pattern, text) /\ len_split(text) < ShortTextWords THEN "high"
  ELSE IF Cardinality({k \in 1..Len(patterns) : str_in(patterns[k], text)}) > 1
       THEN "high"
  ELSE "medium"

\* determine_confidence whose last test is met by the matched pattern
\* alone.
determine_confidence_any_pattern(text, pattern, patterns) ==
  IF str_strip(text) = pattern THEN "high"
  ELSE IF str_in(pattern, text) /\ len_split(text) <= ShortTextWords THEN "high"
  ELSE IF Cardinality({k \in 1..Len(patterns) : str_in(patterns[k], text)}) > 0
       THEN "high"
  ELSE "medium"

\* "Determine confidence": text is the uppercased fragment text, pattern a
\* pattern of the rule contained in it, patterns all patterns of the rule.
determine_confidence(text, pattern, patterns) ==
  IF str_strip(text) = pattern THEN "high"
  ELSE IF str_in(pattern, text) /\ len_split(text) <= ShortTextWords THEN "high"
  ELSE IF Cardinality({k \in 1..Len(patterns) : str_in(patterns[k], text)}) > 1
       THEN "high"
  ELSE "medium"

\* keep_best_match with the dict keyed by the matched pattern instead of
\* the label.
keep_best_match_by_pattern(found, item, label, priority, pattern, confidence) ==
  IF ~dict_has(found, pattern)
  THEN dict_set(found, pattern,
                [section_type |-> label,
                 page |-> item.page,
                 confidence |-> confidence,
                 text_snippet |-> str_prefix(item.text, SnippetLength),
                 priority |-> priority,
                 pattern_matched |-> pattern])
  ELSE LET existing == dict_get(found, pattern)
       IN  IF \/ confidence_rank(confidence) > confidence_rank(existing.confidence)
              \/ (confidence = existing.confidence /\ priority >= existing.priority)
           THEN dict_set(found, pattern,
                         [existing EXCEPT !.page = item.page,
                                          !.confidence = confidence,
                                          !.text_snippet = str_prefix(item.text, SnippetLength),
                                          !.pattern_matched = pattern])
           ELSE found

\* keep_best_match whose update stores the rank of the confidence where
\* the priority belongs.
keep_best_match_rank_as_priority(found, item, label, priority, pattern, confidence) ==
  IF ~dict_has(found, label)
  THEN dict_set(found, label,
                [section_type |-> label,
                 page |-> item.page,
                 confidence |-> confidence,
                 text_snippet |-> str_prefix(item.text, SnippetLength),
                 priority |-> priority,
                 pattern_matched |-> pattern])
  ELSE LET existing == dict_get(found, label)
       IN  IF \/ confidence_rank(confidence) > confidence_rank(existing.confidence)
              \/ (confidence = existing.confidence /\ priority >= existing.priority)
           THEN dict_set(found, label,
                         [existing EXCEPT !.page = item.page,
                                          !.confidence = confidence,
                                          !.text_snippet = str_prefix(item.text, SnippetLength),
                                          !.priority = confidence_rank(confidence),
                                          !.pattern_matched = pattern])
           ELSE found

\* keep_best_match that replaces a record of equal confidence only for a
\* strictly higher priority: the first of equal matches wins.
keep_best_match_first_wins(found, item, label, priority, pattern, confidence) ==
  IF ~dict_has(found, label)
  THEN dict_set(found, label,
                [section_type |-> label,
                 page |-> item.page,
                 confidence |-> confidence,
                 text_snippet |-> str_prefix(item.text, SnippetLength),
                 priority |-> priority,
                 pattern_matched |-> pattern])
  ELSE LET existing == dict_get(found, label)
       IN  IF \/ confidence_rank(confidence) > confidence_rank(existing.confidence)
              \/ (confidence = existing.confidence /\ priority > existing.priority)
           THEN dict_set(found, label,
                         [existing EXCEPT !.page = item.page,
                                          !.confidence = confidence,
                                          !.text_snippet = str_prefix(item.text, SnippetLength),
                                          !.pattern_matched = pattern])
           ELSE found

\* keep_best_match whose update writes page and confidence and leaves
\* text_snippet and pattern_matched as they were.
keep_best_match_page_only(found, item, label, priority, pattern, confidence) ==
  IF ~dict_has(found, label)
  THEN dict_set(found, label,
                [section_type |-> label,
                 page |-> item.page,
                 confidence |-> confidence,
                 text_snippet |-> str_prefix(item.text, SnippetLength),
                 priority |-> priority,
                 pattern_matched |-> pattern])
  ELSE LET existing == dict_get(found, label)
       IN  IF \/ confidence_rank(confidence) > confidence_rank(existing.confidence)
              \/ (confidence = existing.confidence /\ priority >= existing.priority)
           THEN dict_set(found, label,
                         [existing EXCEPT !.page = item.page,
                                          !.confidence = confidence])
           ELSE found

\* keep_best_match that replaces the record on every further match.
keep_best_match_latest(found, item, label, priority, pattern, confidence) ==
  dict_set(found, label,
           [section_type |-> label,
            page |-> item.page,
            confidence |-> confidence,
            text_snippet |-> str_prefix(item.text, SnippetLength),
            priority |-> priority,
            pattern_matched |-> pattern])

\* "Keep best match for each section type": insert the record of a label
\* seen for the first time, otherwise update it if the match is better.
keep_best_match(found, item, label, priority, pattern, confidence) ==
  IF ~dict_has(found, label)
  THEN dict_set(found, label,
                [section_type |-> label,
                 page |-> item.page,
                 confidence |-> confidence,
                 text_snippet |-> str_prefix(item.text, SnippetLength),
                 priority |-> priority,
                 pattern_matched |-> pattern])
  ELSE LET existing == dict_get(found, label)
       IN  IF \/ confidence_rank(confidence) > confidence_rank(existing.confidence)
              \/ (confidence = existing.confidence /\ priority >= existing.priority)
           THEN dict_set(found, label,
                         [existing EXCEPT !.page = item.page,
                                          !.confidence = confidence,
                                          !.text_snippet = str_prefix(item.text, SnippetLength),
                                          !.pattern_matched = pattern])
           ELSE found

\* scan_patterns without the break: every contained pattern is handed over.
RECURSIVE scan_patterns_no_break(_, _, _)
scan_patterns_no_break(text, rule, k) ==
  IF k > Len(rule.patterns) THEN <<>>
  ELSE (IF str_in(rule.patterns[k], text)
        THEN <<[label |-> rule.label,
                priority |-> rule.priority,
                pattern |-> rule.patterns[k],
                confidence |-> determine_confidence(text, rule.patterns[k],
                                                    rule.patterns)]>>
        ELSE <<>>)
       \o scan_patterns_no_break(text, rule, k + 1)

\* for pattern in patterns: from the k-th pattern on. The first pattern
\* contained in text is handed, with its confidence, to "keep best match",
\* and ends the loop (break): the matches the loop hands over, in order.
RECURSIVE scan_patterns(_, _, _)
scan_patterns(text, rule, k) ==
  IF k > Len(rule.patterns) THEN <<>>
  ELSE IF str_in(rule.patterns[k], text)
       THEN <<[label |-> rule.label,
               priority |-> rule.priority,
               pattern |-> rule.patterns[k],
               confidence |-> determine_confidence(text, rule.patterns[k],
                                                   rule.patterns)]>>
       ELSE scan_patterns(text, rule, k + 1)

\* scan_rules that leaves the loop over the rules at the first rule with a
\* match.
RECURSIVE scan_rules_first_match(_, _)
scan_rules_first_match(text, r) ==
  IF r > Len(section_rules) THEN <<>>
  ELSE IF scan_patterns(text, section_rules[r], 1) # <<>>
       THEN scan_patterns(text, section_rules[r], 1)
       ELSE scan_rules_first_match(text, r + 1)

\* for rule in section_rules: from the r-th rule on. Matching reads only the
\* fragment's text and the catalog, never found_sections: the matches of
\* one fragment, in the order the loops find them.
RECURSIVE scan_rules(_, _)
scan_rules(text, r) ==
  IF r > Len(section_rules) THEN <<>>
  ELSE scan_patterns(text, section_rules[r], 1) \o scan_rules(text, r + 1)

\* text = item["text"].upper() and the matches of the fragment.
item_matches(raw) == scan_rules(str_upper(raw), 1)

\* item_matches, evaluated once per text of the pool.
pool_matches == [raw \in TextPool |-> item_matches(raw)]

\* The matches of a fragment applied to found_sections one after the other.
RECURSIVE keep_matches(_, _, _, _)
keep_matches(found, item, matches, m) ==
  IF m > Len(matches) THEN found
  ELSE keep_matches(keep_best_match(found, item, matches[m].label,
                                    matches[m].priority, matches[m].pattern,
                                    matches[m].confidence),
                    item, matches, m + 1)

\* The body of "for item in text_content".
analyze_item(found, item) ==
  keep_matches(found, item, pool_matches[item.text], 1)

\* The key with the priority not negated: priority ascending.
sort_key_ascending(x) == <<x.priority, x.page, x.section_type>>

\* The key without the section_type: records of equal priority and page
\* stay in the order of insertion.
sort_key_without_label(x) == <<0 - x.priority, x.page, <<>>>>

\* key=lambda x: (-x["priority"], x["page"], x["section_type"])
sort_key(x) == <<0 - x.priority, x.page, x.section_type>>

\* Python's order on the key tuples.
key_lt(a, b) ==
  \/ a[1] < b[1]
  \/ a[1] = b[1] /\ a[2] < b[2]
  \/ a[1] = b[1] /\ a[2] = b[2] /\ str_lt(a[3], b[3])

\* x put into the sorted list s behind every element whose key is not
\* greater (sorted() is stable).
RECURSIVE insert_sorted(_, _)
insert_sorted(s, x) ==
  IF s = <<>> THEN <<x>>
  ELSE IF key_lt(sort_key(x), sort_key(Head(s)))
       THEN <<x>> \o s
       ELSE <<Head(s)>> \o insert_sorted(Tail(s), x)

\* sorted(values, key=sort_key)
RECURSIVE sorted(_)
sorted(values) ==
  IF values = <<>> THEN <<>>
  ELSE insert_sorted(sorted(SubSeq(values, 1, Len(values) - 1)),
                     values[Len(values)])

\* analyze_result that returns a placeholder record when nothing was found.
analyze_result_placeholder(found) ==
  IF found = <<>>
  THEN <<[section_type |-> <<>>, page |-> 0, confidence |-> "low",
          text_snippet |-> <<>>, priority |-> 0, pattern_matched |-> <<>>]>>
  ELSE sorted(dict_values(found))

\* What the call returns once the loop is over (lines 257-262).
analyze_result(found) == sorted(dict_values(found))

\* The for loop from the i-th fragment on.
RECURSIVE analyze_items(_, _, _)
analyze_items(found, tc, i) ==
  IF i > Len(tc) THEN found
  ELSE analyze_items(analyze_item(found, tc[i]), tc, i + 1)

\* analyze_mortgage_sections(text_content): the list the function returns.
analyze_mortgage_sections(tc) == analyze_result(analyze_items(<<>>, tc, 1))

----------------------------------------------------------------------------
(* State                                                                   *)

VARIABLES
  text_content,    \* the argument of analyze_mortgage_sections
  found_sections,  \* the local dict of the running call
  idx,             \* fragments of text_content the for loop has processed
  sections,        \* the sorted list the call builds and returns
  pc,              \* "call": not in a call, "loop": in the for loop, "done": returned
  calls,           \* calls of analyze_mortgage_sections begun so far
  returned,        \* the lists the calls returned, in order
  request,         \* the upload analyze_document handles
  progress_data,   \* the global dict of update_progress
  response,        \* what analyze_document returned: status code and body
  frames           \* the locals of the invocations that run side by side

vars == <<text_content, found_sections, idx, sections, pc, calls, returned,
          request, progress_data, response, frames>>

\* What a call of analyze_mortgage_sections on its own leaves alone.
outside_call == <<request, progress_data, response, frames>>

Init ==
  /\ text_content \in Inputs
  /\ found_sections = <<>>
  /\ idx = 0
  /\ sections = <<>>
  /\ pc = "call"
  /\ calls = 0
  /\ returned = <<>>
  /\ request = <<>>
  /\ progress_data = <<>>
  /\ response = <<>>
  /\ frames = <<>>

\* Enter with found_sections a dict that outlives the call.
EnterStale ==
  /\ pc = "call"
  /\ found_sections' = found_sections
  /\ idx' = 0
  /\ sections' = <<>>
  /\ pc' = "loop"
  /\ calls' = calls + 1
  /\ UNCHANGED <<text_content, returned>>
  /\ UNCHANGED outside_call

\* The call begins: found_sections = {} (line 209).
Enter ==
  /\ pc = "call"
  /\ found_sections' = <<>>
  /\ idx' = 0
  /\ sections' = <<>>
  /\ pc' = "loop"
  /\ calls' = calls + 1
  /\ UNCHANGED <<text_content, returned>>
  /\ UNCHANGED outside_call

\* One iteration of "for item in text_content" (lines 212-255).
AnalyzeItem ==
  /\ pc = "loop"
  /\ idx < Len(text_content)
  /\ found_sections' = analyze_item(found_sections, text_content[idx + 1])
  /\ idx' = idx + 1
  /\ UNCHANGED <<text_content, sections, pc, calls, returned>>
  /\ UNCHANGED outside_call

\* The loop is over: sort and return (lines 257-262).
Return ==
  /\ pc = "loop"
  /\ idx = Len(text_content)
  /\ sections' = analyze_result(found_sections)
  /\ returned' = Append(returned, sections')
  /\ pc' = "done"
  /\ UNCHANGED <<text_content, found_sections, idx, calls>>
  /\ UNCHANGED outside_call

Next == Enter \/ AnalyzeItem \/ Return

Spec == Init /\ [][Next]_vars

\* The caller hands the same text_content to analyze_mortgage_sections once
\* more.
CallAgain ==
  /\ pc = "done"
  /\ calls < MaxCalls
  /\ pc' = "call"
  /\ UNCHANGED <<text_content, found_sections, idx, sections, calls, returned>>
  /\ UNCHANGED outside_call

NextTwice == Enter \/ AnalyzeItem \/ Return \/ CallAgain

\* The function called repeatedly on one fragment sequence.
SpecTwice == Init /\ [][NextTwice]_vars

\* Every fragment sequence of one fragment, of the pool, on a page up to
\* MaxSinglePage.
SingleInputs ==
  {<<[text |-> raw, page |-> p]>> : raw \in TextPool, p \in 1..MaxSinglePage}

InitSingle ==
  /\ text_content \in SingleInputs
  /\ found_sections = <<>>
  /\ idx = 0
  /\ sections = <<>>
  /\ pc = "call"
  /\ calls = 0
  /\ returned = <<>>
  /\ request = <<>>
  /\ progress_data = <<>>
  /\ response = <<>>
  /\ frames = <<>>

\* One call on a single fragment.
SpecSingle == InitSingle /\ [][Next]_vars

\* One call, whose result the relational properties compare with the
\* results for related arguments and catalogs.
SpecRelated == Init /\ [][Next]_vars

----------------------------------------------------------------------------
(* Definitions the properties are stated with                              *)

RuleIndexes == 1..Len(section_rules)

\* The indexes of the patterns of rule r that raw.upper() contains.
contained_patterns ==
  [raw \in TextPool |->
     [r \in RuleIndexes |->
        {k \in 1..Len(section_rules[r].patterns) :
           str_in(section_rules[r].patterns[k], str_upper(raw))}]]

\* Rule r matches the fragment: its text contains a pattern of the rule.
rule_matches(r, item) == contained_patterns[item.text][r] # {}

\* The catalog index of the rule with this label.
rule_index(label) == CHOOSE r \in RuleIndexes : section_rules[r].label = label

\* The fragments the loop has processed so far.
Processed == 1..idx

\* The records found_sections holds, in insertion order.
records == dict_values(found_sections)

Finished == pc = "done"

----------------------------------------------------------------------------
(* The request handler (analyze_document, lines 270-329)                   *)

\* str.lower() on one character.
lower_char(c) ==
  IF \E k \in 1..Len(UpperCase) : UpperCase[k] = c
  THEN LowerCase[CHOOSE k \in 1..Len(UpperCase) : UpperCase[k] = c]
  ELSE c

\* s.lower()
str_lower(s) == [k \in 1..Len(s) |-> lower_char(s[k])]

\* s.endswith(suffix)
str_endswith(s, suffix) ==
  /\ Len(suffix) <= Len(s)
  /\ SubSeq(s, Len(s) - Len(suffix) + 1, Len(s)) = suffix

FileNames == {<<>>, <<"l","o","a","n",".","P","D","F">>, <<"l","o","a","n",".","t","x","t">>}

\* An upload: whether the form has a 'file' part, its filename, the number
\* of bytes file.read() gives, and whether file.read() raises.
Requests ==
  [has_file : BOOLEAN, filename : FileNames, size : 0..1, readable : BOOLEAN]

\* str(uuid.uuid4()) of the one request of the model.
session_id == "session"

\* int((current / total) * 100) if total > 0 else 0. The quotient is exact
\* for the page counts of the model.
percentage(current, total) ==
  IF total > 0 THEN (current * 100) \div total ELSE 0

\* update_progress (lines 59-67), the timestamp left out. A status is the
\* sequence of the parts of its string: f"ocr_page_{n}" is <<"ocr_page_", n>>.
update_progress(data, session, current, total, status) ==
  dict_set(data, session,
           [current |-> current, total |-> total, status |-> status,
            percentage |-> percentage(current, total)])

\* What extract_text_from_pdf can return on the texts of the model: both
\* methods append page after page.
ExtractedInputs ==
  {tc \in Inputs : \A i \in 1..(Len(tc) - 1) : tc[i].page <= tc[i + 1].page}

\* The last update_progress of extract_text_from_pdf on a document of
\* total pages: none (no method got as far as opening the document), the
\* last page of pdfplumber (line 91) or the last page of OCR (line 131).
ExtractionProgress(total) ==
  {<<>>,
   <<total, total, <<"extracting_text">>>>,
   <<total, total, <<"ocr_page_", total>>>>}

\* len(set(item['page'] for item in text_content))
total_pages(tc) == Cardinality({tc[i].page : i \in 1..Len(tc)})

validated ==
  /\ request.has_file
  /\ request.filename # <<>>
  /\ str_endswith(str_lower(request.filename), <<".","p","d","f">>)

InitDocument ==
  /\ request \in Requests
  /\ text_content = <<>>
  /\ found_sections = <<>>
  /\ idx = 0
  /\ sections = <<>>
  /\ pc = "request"
  /\ calls = 0
  /\ returned = <<>>
  /\ progress_data = <<>>
  /\ response = <<>>
  /\ frames = <<>>

\* analyze_document returns an error response.
respond_error(code, message) ==
  /\ response' = [code |-> code, body |-> [error |-> message]]
  /\ pc' = "responded"
  /\ UNCHANGED <<text_content, found_sections, idx, sections, calls, returned,
                 request, progress_data, frames>>

\* lines 278-279
RejectNoFile ==
  /\ pc = "request"
  /\ ~request.has_file
  /\ respond_error(400, "No file uploaded")

\* lines 282-283
RejectNoName ==
  /\ pc = "request"
  /\ request.has_file
  /\ request.filename = <<>>
  /\ respond_error(400, "No file selected")

\* lines 285-286
RejectNotPdf ==
  /\ pc = "request"
  /\ request.has_file
  /\ request.filename # <<>>
  /\ ~str_endswith(str_lower(request.filename), <<".","p","d","f">>)
  /\ respond_error(400, "Only PDF files are supported")

\* file.read() raises (line 289): the handler of lines 325-329.
ReadFails ==
  /\ pc = "request"
  /\ validated
  /\ ~request.readable
  /\ respond_error(500, "Document processing error")

\* lines 294-295
RejectEmpty ==
  /\ pc = "request"
  /\ validated
  /\ request.readable
  /\ request.size = 0
  /\ respond_error(400, "File is empty")

\* The upload is accepted: update_progress(session_id, 0, 1, "starting")
\* (line 298).
Accept ==
  /\ pc = "request"
  /\ validated
  /\ request.readable
  /\ request.size # 0
  /\ progress_data' = update_progress(progress_data, session_id, 0, 1, <<"starting">>)
  /\ pc' = "extract"
  /\ UNCHANGED <<text_content, found_sections, idx, sections, calls, returned,
                 request, response, frames>>

\* text_content = extract_text_from_pdf(file_content, session_id) (line 301):
\* what the document holds and what the PDF and OCR libraries make of it is
\* not in the code, so any result and any last progress it can produce.
ExtractText ==
  /\ pc = "extract"
  /\ \E tc \in ExtractedInputs, total \in 1..MaxPage :
       /\ \A i \in 1..Len(tc) : tc[i].page <= total
       /\ \E last \in ExtractionProgress(total) :
            /\ tc # <<>> => last # <<>>
            /\ progress_data' =
                 IF last = <<>> THEN progress_data
                 ELSE update_progress(progress_data, session_id,
                                      last[1], last[2], last[3])
       /\ text_content' = tc
  /\ pc' = "extracted"
  /\ UNCHANGED <<found_sections, idx, sections, calls, returned,
                 request, response, frames>>

\* "if not text_content" (lines 303-304)
RejectNoText ==
  /\ pc = "extracted"
  /\ text_content = <<>>
  /\ respond_error(400, "Could not extract text from PDF")

\* StartAnalysis without the test of line 303.
StartAnalysisUnchecked ==
  /\ pc = "extracted"
  /\ progress_data' = update_progress(progress_data, session_id, 1, 1, <<"analyzing">>)
  /\ pc' = "call"
  /\ UNCHANGED <<text_content, found_sections, idx, sections, calls, returned,
                 request, response, frames>>

\* update_progress(session_id, 1, 1, "analyzing") (line 307); the call of
\* line 308 is Enter, AnalyzeItem and Return.
StartAnalysis ==
  /\ pc = "extracted"
  /\ text_content # <<>>
  /\ progress_data' = update_progress(progress_data, session_id, 1, 1, <<"analyzing">>)
  /\ pc' = "call"
  /\ UNCHANGED <<text_content, found_sections, idx, sections, calls, returned,
                 request, response, frames>>

\* update_progress(session_id, 1, 1, "completed") and the response (lines
\* 311-323).
Complete ==
  /\ pc = "done"
  /\ progress_data' = update_progress(progress_data, session_id, 1, 1, <<"completed">>)
  /\ response' =
       [code |-> 200,
        body |-> [session_id |-> session_id,
                  sections |-> returned[Len(returned)],
                  total_pages |-> total_pages(text_content),
                  total_text_items |-> Len(text_content),
                  processing_method |-> "local"]]
  /\ pc' = "responded"
  /\ UNCHANGED <<text_content, found_sections, idx, sections, calls, returned,
                 request, frames>>

NextDocument ==
  \/ RejectNoFile \/ RejectNoName \/ RejectNotPdf \/ ReadFails \/ RejectEmpty
  \/ Accept \/ ExtractText \/ RejectNoText \/ StartAnalysis
  \/ Enter \/ AnalyzeItem \/ Return
  \/ Complete

\* One request to /api/analyze.
SpecDocument == InitDocument /\ [][NextDocument]_vars

----------------------------------------------------------------------------
(* Two invocations of analyze_mortgage_sections side by side: the server   *)
(* of line 880 handles each request in a thread of its own                 *)

Invocations == {1, 2}

ConcurrentTexts == {TextExactNote, TextDeedOfTrust}

ConcurrentInputs ==
  UNION {[1..n -> [text : ConcurrentTexts, page : 1..MaxConcurrentPage]] :
           n \in 0..MaxConcurrentFragments}

\* The locals of an invocation before its first statement.
frame(tc) ==
  [text_content |-> tc, found_sections |-> <<>>, idx |-> 0,
   sections |-> <<>>, pc |-> "call"]

\* An assignment to a name every invocation shares.
global_assign(fr, t, name, value) ==
  [u \in DOMAIN fr |-> [fr[u] EXCEPT ![name] = value]]

\* An assignment to a local name of invocation t: found_sections (line 209)
\* and sections (line 258) are locals of the function.
local_assign(fr, t, name, value) ==
  [fr EXCEPT ![t][name] = value]

InitConcurrent ==
  /\ frames \in [Invocations -> {frame(tc) : tc \in ConcurrentInputs}]
  /\ text_content = <<>>
  /\ found_sections = <<>>
  /\ idx = 0
  /\ sections = <<>>
  /\ pc = "concurrent"
  /\ calls = 0
  /\ returned = <<>>
  /\ request = <<>>
  /\ progress_data = <<>>
  /\ response = <<>>

\* Invocation t begins: found_sections = {} (line 209).
EnterConcurrent(t) ==
  /\ frames[t].pc = "call"
  /\ frames' = [local_assign(frames, t, "found_sections", <<>>)
                  EXCEPT ![t].idx = 0, ![t].pc = "loop"]

\* One iteration of the for loop of invocation t (lines 212-255).
AnalyzeItemConcurrent(t) ==
  /\ frames[t].pc = "loop"
  /\ frames[t].idx < Len(frames[t].text_content)
  /\ frames' =
       [local_assign(frames, t, "found_sections",
                     analyze_item(frames[t].found_sections,
                                  frames[t].text_content[frames[t].idx + 1]))
          EXCEPT ![t].idx = frames[t].idx + 1]

\* Invocation t sorts and returns (lines 257-262).
ReturnConcurrent(t) ==
  /\ frames[t].pc = "loop"
  /\ frames[t].idx = Len(frames[t].text_content)
  /\ frames' = [local_assign(frames, t, "sections",
                             analyze_result(frames[t].found_sections))
                  EXCEPT ![t].pc = "done"]

NextConcurrent ==
  /\ \E t \in Invocations :
        \/ EnterConcurrent(t)
        \/ AnalyzeItemConcurrent(t)
        \/ ReturnConcurrent(t)
  /\ UNCHANGED <<text_content, found_sections, idx, sections, pc, calls,
                 returned, request, progress_data, response>>

\* Two invocations, their statements interleaved in every way.
SpecConcurrent == InitConcurrent /\ [][NextConcurrent]_vars

----------------------------------------------------------------------------
(* Properties                                                              *)

\* C1 (uniqueness): after each processed fragment and in the returned list
\* there is at most one record per section_type; a further match of a label
\* never adds a second record for it.
C1_OneRecordPerLabel ==
  /\ \A i, j \in 1..Len(records) :
        records[i].section_type = records[j].section_type => i = j
  /\ \A i, j \in 1..Len(sections) :
        sections[i].section_type = sections[j].section_type => i = j
  /\ \A r \in RuleIndexes :
        Cardinality({i \in 1..Len(records) :
                       records[i].section_type = section_rules[r].label})
          <= 1

\* C1 witness: a returned list with the record of a label that two
\* fragments matched through different patterns.
C1_Witness ==
  /\ Finished
  /\ \E i, j \in 1..Len(text_content), r \in RuleIndexes :
        /\ i < j
        /\ rule_matches(r, text_content[i])
        /\ rule_matches(r, text_content[j])
        /\ contained_patterns[text_content[i].text][r]
             # contained_patterns[text_content[j].text][r]
        /\ \E s \in 1..Len(sections) :
              sections[s].section_type = section_rules[r].label

\* Every record of the list carries the priority of the catalog rule whose
\* label is its section_type.
priorities_of_catalog(list) ==
  \A i \in 1..Len(list) :
     /\ \E r \in RuleIndexes : section_rules[r].label = list[i].section_type
     /\ list[i].priority = section_rules[rule_index(list[i].section_type)].priority

\* C2 (priority consistency): every record, while the fragments are
\* processed and in the returned list, has the priority the catalog gives
\* the rule of its section_type; processing a fragment leaves the
\* section_type and priority of every record already present unchanged.
C2_PriorityOfCatalog ==
  /\ [](priorities_of_catalog(records) /\ priorities_of_catalog(sections))
  /\ [][(pc = "loop" /\ idx' = idx + 1) =>
          \A i \in 1..Len(records) :
             /\ records'[i].section_type = records[i].section_type
             /\ records'[i].priority = records[i].priority]_vars

\* C2 witness: a returned record that a later fragment updated in place
\* (its page is not the page of the first fragment matching its label).
C2_Witness ==
  /\ Finished
  /\ \E s \in 1..Len(sections) :
        LET r == rule_index(sections[s].section_type)
            first == CHOOSE i \in 1..Len(text_content) :
                       /\ rule_matches(r, text_content[i])
                       /\ \A j \in 1..Len(text_content) :
                             rule_matches(r, text_content[j]) => i <= j
        IN  /\ sections[s].page # text_content[first].page
            /\ sections[s].priority = section_rules[r].priority

\* C3 (output ordering): the returned list is sorted by priority
\* descending, then page ascending, then section_type ascending.
C3_SortedOutput ==
  Finished =>
    \A s \in 1..(Len(sections) - 1) :
       LET a == sections[s]
           b == sections[s + 1]
       IN  \/ a.priority > b.priority
           \/ a.priority = b.priority /\ a.page < b.page
           \/ /\ a.priority = b.priority
              /\ a.page = b.page
              /\ (a.section_type = b.section_type
                    \/ str_lt(a.section_type, b.section_type))

\* C3 witness: a returned list in which the priority decides the order of
\* one adjacent pair and the page, against the order of the labels, that of
\* another.
C3_Witness ==
  /\ Finished
  /\ \E s \in 1..(Len(sections) - 1) :
        sections[s].priority > sections[s + 1].priority
  /\ \E s \in 1..(Len(sections) - 1) :
        /\ sections[s].priority = sections[s + 1].priority
        /\ sections[s].page < sections[s + 1].page
        /\ str_lt(sections[s + 1].section_type, sections[s].section_type)

\* The match the loops hand over for rule r and a fragment rule r matches.
match_of(r, item) ==
  LET ms == pool_matches[item.text]
  IN  ms[CHOOSE m \in 1..Len(ms) : ms[m].label = section_rules[r].label]

\* The record of rule r's label in a dict that holds one.
record_of(found, r) == dict_get(found, section_rules[r].label)

\* The processed fragments rule r matches.
matching_processed(r) == {i \in Processed : rule_matches(r, text_content[i])}

\* Among them, those of the highest confidence.
best_processed(r) ==
  {i \in matching_processed(r) :
     \A j \in matching_processed(r) :
        confidence_rank(match_of(r, text_content[j]).confidence)
          <= confidence_rank(match_of(r, text_content[i]).confidence)}

\* The last of a non-empty set of positions.
last_of(S) == CHOOSE i \in S : \A j \in S : j <= i

\* The page of every record is the page of the last processed fragment
\* among those matching its rule with the highest confidence.
page_of_last_best ==
  \A r \in RuleIndexes :
     dict_has(found_sections, section_rules[r].label) =>
        /\ matching_processed(r) # {}
        /\ record_of(found_sections, r).page
             = text_content[last_of(best_processed(r))].page

\* A step of the loop treats the record of every label that has one and
\* that the fragment matches by the upsert rule.
upsert_step ==
  (pc = "loop" /\ idx' = idx + 1) =>
    \A r \in RuleIndexes :
       LET item == text_content[idx + 1]
           label == section_rules[r].label
       IN  (dict_has(found_sections, label) /\ rule_matches(r, item)) =>
             LET existing == record_of(found_sections, r)
                 updated == record_of(found_sections', r)
                 match == match_of(r, item)
                 better ==
                   \/ confidence_rank(match.confidence)
                        > confidence_rank(existing.confidence)
                   \/ /\ match.confidence = existing.confidence
                      /\ section_rules[r].priority >= existing.priority
             IN  /\ dict_has(found_sections', label)
                 /\ better =>
                      /\ updated.page = item.page
                      /\ updated.confidence = match.confidence
                      /\ updated.text_snippet = str_prefix(item.text, SnippetLength)
                      /\ updated.pattern_matched = match.pattern
                 /\ ~better => updated = existing

\* C4 (upsert rule): a match of a label that has a record replaces the
\* record's page, confidence, snippet and pattern exactly when its
\* confidence outranks the record's, or equals it with a priority not below
\* the record's; so each record's page is the page of the last fragment
\* among the matching fragments of the highest confidence.
C4_UpsertRule == []page_of_last_best /\ [][upsert_step]_vars

\* C4 witness: a label matched with high, high and medium confidence on
\* pages 1, 2 and 1: the returned record has the page of the second
\* fragment, neither the first match nor the last.
C4_Witness ==
  /\ Finished
  /\ Len(text_content) = 3
  /\ \E r \in RuleIndexes :
        /\ \A i \in 1..3 : rule_matches(r, text_content[i])
        /\ match_of(r, text_content[1]).confidence = "high"
        /\ match_of(r, text_content[2]).confidence = "high"
        /\ match_of(r, text_content[3]).confidence = "medium"
        /\ text_content[1].page = 1
        /\ text_content[2].page = 2
        /\ text_content[3].page = 1
        /\ \E s \in 1..Len(sections) :
              /\ sections[s].section_type = section_rules[r].label
              /\ sections[s].page = 2

\* The tier the claim gives a fragment text for a rule matching it: high
\* when the trimmed uppercased text is the matched pattern, or the text has
\* at most 10 words, or it contains more than one pattern of the rule.
claimed_confidence ==
  [raw \in TextPool |->
     [r \in RuleIndexes |->
        IF contained_patterns[raw][r] = {} THEN "none"
        ELSE LET text == str_upper(raw)
                 matched == match_of(r, [text |-> raw, page |-> 1]).pattern
             IN  IF \/ str_strip(text) = matched
                    \/ len_split(raw) <= 10
                    \/ Cardinality(contained_patterns[raw][r]) > 1
                 THEN "high"
                 ELSE "medium"]]

\* C5 (confidence tier): the confidence computed for a fragment and a rule
\* matching it is high exactly in the three cases of the claim and medium
\* otherwise; no record ever has another confidence than high or medium.
C5_ConfidenceTier ==
  /\ \A i \in Processed, r \in RuleIndexes :
        rule_matches(r, text_content[i]) =>
           match_of(r, text_content[i]).confidence
             = claimed_confidence[text_content[i].text][r]
  /\ \A i \in 1..Len(records) : records[i].confidence \in {"high", "medium"}
  /\ \A s \in 1..Len(sections) : sections[s].confidence \in {"high", "medium"}

\* C5 witness: the returned list holds a medium record, and a fragment of
\* more than 10 words was matched with high confidence (several patterns of
\* the rule) and another of exactly 10 words as well.
C5_Witness ==
  /\ Finished
  /\ \E s \in 1..Len(sections) : sections[s].confidence = "medium"
  /\ \E i \in Processed, r \in RuleIndexes :
        /\ rule_matches(r, text_content[i])
        /\ len_split(text_content[i].text) > 10
        /\ match_of(r, text_content[i]).confidence = "high"
  /\ \E i \in Processed, r \in RuleIndexes :
        /\ rule_matches(r, text_content[i])
        /\ len_split(text_content[i].text) = 10
        /\ match_of(r, text_content[i]).confidence = "high"

\* The list with the fragments at positions i and j exchanged.
swapped(tc, i, j) ==
  [k \in 1..Len(tc) |-> IF k = i THEN tc[j] ELSE IF k = j THEN tc[i] ELSE tc[k]]

\* The fragment lists that exchange two fragments of text_content that share
\* the page number. Every permutation of the fragments of one page among
\* themselves is a chain of such exchanges, and Inputs holds every list of
\* such a chain.
same_page_swaps ==
  {swapped(text_content, i, j) :
     <<i, j>> \in {q \in (1..Len(text_content)) \X (1..Len(text_content)) :
                     /\ q[1] < q[2]
                     /\ text_content[q[1]].page = text_content[q[2]].page}}

\* The records of a list as a set.
record_set(list) == {list[s] : s \in 1..Len(list)}

\* What a list of records says about labels: section_type, confidence and
\* priority of each record.
label_view(list) ==
  {<<list[s].section_type, list[s].confidence, list[s].priority>> :
     s \in 1..Len(list)}

\* The list of records without text_snippet and pattern_matched.
located_view(list) ==
  [s \in 1..Len(list) |->
     <<list[s].section_type, list[s].page, list[s].confidence, list[s].priority>>]

\* The fragments are in page-ascending order, as extract_text_from_pdf
\* produces them.
page_ascending(tc) ==
  \A i \in 1..(Len(tc) - 1) : tc[i].page <= tc[i + 1].page

\* C6 as claimed: permuting the fragments of one page among themselves
\* leaves the set of returned records unchanged.
C6_SamePageOrderKeepsRecords ==
  Finished =>
    \A tc \in same_page_swaps :
       record_set(analyze_mortgage_sections(tc)) = record_set(sections)

\* C6 amended (order invariance within a page): permuting the fragments of
\* one page among themselves changes neither the labels returned nor the
\* confidence and priority of any record and, when the fragments are in
\* page-ascending order, neither the page of any record nor the order of the
\* returned list; text_snippet and pattern_matched may change.
C6_SamePageOrderKeepsLabels ==
  Finished =>
    \A tc \in same_page_swaps :
       /\ label_view(analyze_mortgage_sections(tc)) = label_view(sections)
       /\ page_ascending(text_content) =>
            located_view(analyze_mortgage_sections(tc)) = located_view(sections)

\* C6 witness: a page-ascending input and an exchange of two fragments of
\* one page that changes a returned record.
C6_Witness ==
  /\ Finished
  /\ page_ascending(text_content)
  /\ \E tc \in same_page_swaps :
        record_set(analyze_mortgage_sections(tc)) # record_set(sections)

\* C7 (determinism): every call on the same fragment sequence returns the
\* list the first call returned, and no call sees state of an earlier one:
\* inside the loop found_sections is what the fragments processed in this
\* call make of an empty dict.
C7_SameOutputTwice ==
  /\ \A c \in 1..Len(returned) : returned[c] = returned[1]
  /\ pc = "loop" =>
       found_sections = analyze_items(<<>>, SubSeq(text_content, 1, idx), 1)

\* C7 witness: the second call has returned, a list of several records one
\* of which a later fragment had replaced.
C7_Witness ==
  /\ Finished
  /\ calls = 2
  /\ Len(returned) = 2
  /\ Len(returned[2]) >= 2
  /\ \E r \in RuleIndexes :
        /\ Cardinality(matching_processed(r)) >= 2
        /\ last_of(best_processed(r)) > 1

\* C8 (empty input): on an empty fragment sequence the loop body never
\* runs, the call goes on to return, and it returns the empty list.
C8_EmptyInput ==
  text_content = <<>> =>
    /\ pc = "call" => ENABLED Enter
    /\ pc = "loop" => (idx = 0 /\ found_sections = <<>> /\ ENABLED Return)
    /\ Finished => (sections = <<>> /\ returned = <<(<<>>)>>)

\* C8 witness: the call on the empty sequence has returned.
C8_Witness ==
  /\ text_content = <<>>
  /\ Finished
  /\ calls = 1
  /\ Len(returned) = 1

\* The section_types of a list of records.
labels_of(list) == {list[s].section_type : s \in 1..Len(list)}

\* The rules with a pattern contained in the text of the fragment.
rules_matching(item) == {r \in RuleIndexes : rule_matches(r, item)}

\* The labels of the rules that match a fragment at one of the positions.
labels_matched(positions) ==
  {section_rules[r].label :
     r \in UNION {rules_matching(text_content[i]) : i \in positions}}

\* C9 (label set exactness): a label has a record exactly when the
\* uppercased text of some processed fragment contains a pattern of the
\* label's rule; a fragment containing patterns of k rules has k records,
\* one per rule.
C9_LabelsExactlyMatched ==
  /\ labels_of(records) = labels_matched(Processed)
  /\ Finished => labels_of(sections) = labels_matched(1..Len(text_content))
  /\ \A i \in Processed :
        Cardinality({s \in 1..Len(records) :
                       \E r \in rules_matching(text_content[i]) :
                          records[s].section_type = section_rules[r].label})
          = Cardinality(rules_matching(text_content[i]))

\* C9 witness: one fragment contains MORTGAGE and PROMISSORY NOTE, another
\* no pattern at all; the returned list holds a Mortgage record and a
\* Promissory Note record, both taken from the first, and nothing else.
C9_Witness ==
  /\ Finished
  /\ Len(sections) = 2
  /\ \E i, j \in 1..Len(text_content) :
        /\ rules_matching(text_content[j]) = {}
        /\ rules_matching(text_content[i]) = {1, 2}
        /\ 1 \in contained_patterns[text_content[i].text][1]
        /\ 1 \in contained_patterns[text_content[i].text][2]
        /\ \A s \in 1..2 :
              sections[s].text_snippet
                = str_prefix(text_content[i].text, SnippetLength)

\* The earliest-listed pattern of rule r that raw.upper() contains.
first_contained(r, raw) ==
  LET ks == contained_patterns[raw][r]
  IN  section_rules[r].patterns[CHOOSE k \in ks : \A j \in ks : k <= j]

\* The matches the loops hand to "keep best match" for a fragment and rule r.
attempts(r, item) ==
  LET of_rule(m) == m.label = section_rules[r].label
  IN  SelectSeq(pool_matches[item.text], of_rule)

\* C10 (first pattern only): for a fragment and a rule at most one match is
\* handed to the insert-or-update, with the earliest-listed pattern of the
\* rule that the uppercased text contains, and every rule gets its turn; so
\* the pattern_matched of every record is the earliest-listed contained
\* pattern of its rule in the fragment the record was taken from.
C10_FirstPatternOnly ==
  /\ \A i \in Processed, r \in RuleIndexes :
        LET item == text_content[i]
        IN  /\ Len(attempts(r, item)) <= 1
            /\ rule_matches(r, item) =>
                 /\ Len(attempts(r, item)) = 1
                 /\ attempts(r, item)[1].pattern = first_contained(r, item.text)
  /\ \A s \in 1..Len(records) :
        LET r == rule_index(records[s].section_type)
        IN  \E i \in Processed :
               /\ rule_matches(r, text_content[i])
               /\ records[s].page = text_content[i].page
               /\ records[s].text_snippet
                    = str_prefix(text_content[i].text, SnippetLength)
               /\ records[s].pattern_matched
                    = first_contained(r, text_content[i].text)

\* C10 witness: a returned record taken from a fragment that contains two
\* patterns of its rule, and another whose pattern is not the first pattern
\* of its rule.
C10_Witness ==
  /\ Finished
  /\ \E s \in 1..Len(sections), i \in Processed :
        LET r == rule_index(sections[s].section_type)
        IN  /\ Cardinality(contained_patterns[text_content[i].text][r]) >= 2
            /\ sections[s].text_snippet
                 = str_prefix(text_content[i].text, SnippetLength)
            /\ sections[s].pattern_matched = section_rules[r].patterns[1]
  /\ \E s \in 1..Len(sections) :
        sections[s].pattern_matched
          # section_rules[rule_index(sections[s].section_type)].patterns[1]

\* An order of the catalog: the rule indexes in the order the list holds
\* the rules. The catalog as written has the order 1, 2, ... .
written_order == [k \in RuleIndexes |-> k]

\* The order with the rules at positions i and j exchanged.
exchanged_order(i, j) ==
  [k \in RuleIndexes |-> IF k = i THEN j ELSE IF k = j THEN i ELSE k]

\* The catalog written backwards.
reversed_order == [k \in RuleIndexes |-> Len(section_rules) + 1 - k]

\* The rules a text of the pool matches.
rules_of_pool ==
  {r \in RuleIndexes : \E raw \in TextPool : contained_patterns[raw][r] # {}}

\* The catalog with its first rule moved to the end.
rotated_order ==
  [k \in RuleIndexes |-> IF k = Len(section_rules) THEN 1 ELSE k + 1]

\* The catalog orders examined: every exchange of two rules the pool
\* matches, the reversed and the rotated catalog. A rule no text matches
\* hands nothing over wherever it stands.
CatalogOrders ==
  {exchanged_order(q[1], q[2]) :
     q \in {q \in rules_of_pool \X rules_of_pool : q[1] < q[2]}}
    \cup {reversed_order, rotated_order}

\* for rule in section_rules on a catalog in the given order, from its k-th
\* rule on: the matches of a fragment text, evaluated once per text and
\* order.
RECURSIVE scan_rules_in_order(_, _, _)
scan_rules_in_order(order, text, k) ==
  IF k > Len(order) THEN <<>>
  ELSE scan_patterns(text, section_rules[order[k]], 1)
         \o scan_rules_in_order(order, text, k + 1)

order_matches ==
  [order \in CatalogOrders \cup {written_order} |->
     [raw \in TextPool |-> scan_rules_in_order(order, str_upper(raw), 1)]]

\* The for loop over the fragments with the catalog in the given order.
RECURSIVE analyze_items_in_order(_, _, _, _)
analyze_items_in_order(order, found, tc, i) ==
  IF i > Len(tc) THEN found
  ELSE analyze_items_in_order(
         order,
         keep_matches(found, tc[i], order_matches[order][tc[i].text], 1),
         tc, i + 1)

\* What analyze_mortgage_sections returns with the catalog in that order.
analyze_in_order(order, tc) ==
  analyze_result(analyze_items_in_order(order, <<>>, tc, 1))

\* C11 (catalog order independence): with the rules of the catalog in
\* another order the function returns the same list.
C11_CatalogOrderIndependent ==
  Finished =>
    /\ analyze_in_order(written_order, text_content) = sections
    /\ \A order \in CatalogOrders :
          analyze_in_order(order, text_content) = sections

\* C11 witness: a returned list of two records of equal priority and page,
\* which an exchanged catalog inserts into found_sections the other way
\* round.
C11_Witness ==
  /\ Finished
  /\ Len(sections) >= 2
  /\ sections[1].priority = sections[2].priority
  /\ sections[1].page = sections[2].page
  /\ \E order \in CatalogOrders :
        LET found == analyze_items_in_order(order, <<>>, text_content, 1)
        IN  /\ found # found_sections
            /\ found[1].key = sections[2].section_type

\* The list with a second copy of its i-th fragment put in at position at.
with_duplicate(tc, i, at) ==
  SubSeq(tc, 1, at - 1) \o <<tc[i]>> \o SubSeq(tc, at, Len(tc))

\* C12 as claimed: a second copy of a fragment, wherever it is added,
\* leaves the returned list unchanged.
C12_DuplicateAnywhereKeepsOutput ==
  Finished =>
    \A i \in 1..Len(text_content), at \in 1..(Len(text_content) + 1) :
       analyze_mortgage_sections(with_duplicate(text_content, i, at)) = sections

\* C12 amended (duplicate fragments): a second copy of a fragment added
\* next to the fragment leaves the returned list unchanged; added anywhere
\* else it leaves the labels returned and the confidence and priority of
\* every record unchanged.
C12_DuplicateNextToOriginal ==
  Finished =>
    \A i \in 1..Len(text_content) :
       /\ analyze_mortgage_sections(with_duplicate(text_content, i, i + 1))
            = sections
       /\ \A at \in (1..(Len(text_content) + 1)) \ {i, i + 1} :
             label_view(analyze_mortgage_sections(
                          with_duplicate(text_content, i, at)))
               = label_view(sections)

\* C12 witness: a second copy of the first fragment added at the end takes
\* a record over from a later fragment of the same confidence.
C12_Witness ==
  /\ Finished
  /\ Len(text_content) >= 2
  /\ analyze_mortgage_sections(
       with_duplicate(text_content, 1, Len(text_content) + 1)) # sections
  /\ analyze_mortgage_sections(with_duplicate(text_content, 1, 2)) = sections

\* C13 (exact-pattern fragment): the single fragment "PROMISSORY NOTE" of
\* page 3 returns exactly one record: Promissory Note, page 3, high,
\* pattern PROMISSORY NOTE, priority 10.
C13_ExactPatternFragment ==
  (Finished /\ text_content = <<[text |-> <<"P","R","O","M","I","S","S","O","R","Y"," ","N","O","T","E">>, page |-> 3]>>) =>
    /\ Len(sections) = 1
    /\ sections[1].section_type = <<"P","r","o","m","i","s","s","o","r","y"," ","N","o","t","e">>
    /\ sections[1].page = 3
    /\ sections[1].confidence = "high"
    /\ sections[1].pattern_matched = <<"P","R","O","M","I","S","S","O","R","Y"," ","N","O","T","E">>
    /\ sections[1].priority = 10

\* C13 witness: the call on that fragment has returned.
C13_Witness ==
  /\ Finished
  /\ text_content = <<[text |-> TextExactNote, page |-> 3]>>
  /\ returned = <<sections>>
  /\ Len(sections) = 1

\* C14 (long-sentence match): the single 11-word fragment "This deed of
\* trust secures ..." of page 1 returns a record Mortgage, priority 10,
\* pattern DEED OF TRUST, confidence medium: it has more than 10 words, is
\* not the pattern, and contains one pattern of the Mortgage rule only.
C14_LongSentenceMedium ==
  (Finished /\ text_content = <<[text |-> TextDeedOfTrust, page |-> 1]>>) =>
    /\ \E s \in 1..Len(sections) :
          /\ sections[s].section_type = <<"M","o","r","t","g","a","g","e">>
          /\ sections[s].priority = 10
          /\ sections[s].pattern_matched = <<"D","E","E","D"," ","O","F"," ","T","R","U","S","T">>
          /\ sections[s].confidence = "medium"
          /\ sections[s].page = 1
    /\ len_split(TextDeedOfTrust) > 10
    /\ str_strip(str_upper(TextDeedOfTrust)) # <<"D","E","E","D"," ","O","F"," ","T","R","U","S","T">>
    /\ Cardinality(contained_patterns[TextDeedOfTrust][1]) = 1

\* C14 witness: the call on that fragment has returned, a Mortgage record
\* among others.
C14_Witness ==
  /\ Finished
  /\ text_content = <<[text |-> TextDeedOfTrust, page |-> 1]>>
  /\ Len(sections) = 3
  /\ sections[1].section_type = section_rules[1].label

\* The request is answered.
Responded == pc = "responded"

\* The request is answered and extract_text_from_pdf had returned.
RespondedAfterExtraction == Responded /\ dict_has(progress_data, session_id)

\* C15 (distinct pipeline outcomes): a request whose extraction gave no
\* fragment ends with status 400 and an error body, the classifier never
\* called and the progress never 'completed'; a request whose fragments
\* match no rule ends with status 200, an empty sections list and progress
\* 'completed'.
C15_NoTextIsNotNoSections ==
  /\ (RespondedAfterExtraction /\ text_content = <<>>) =>
        /\ response.code = 400
        /\ DOMAIN response.body = {"error"}
        /\ calls = 0
        /\ dict_get(progress_data, session_id).status # <<"completed">>
  /\ (RespondedAfterExtraction /\ text_content # <<>>
        /\ \A i \in 1..Len(text_content) : rules_matching(text_content[i]) = {}) =>
        /\ response.code = 200
        /\ "error" \notin DOMAIN response.body
        /\ response.body.sections = <<>>
        /\ calls = 1
        /\ dict_get(progress_data, session_id).status = <<"completed">>

\* C15 witness: fragments were extracted, the classifier ran and found no
\* section.
C15_Witness ==
  /\ Responded
  /\ Len(text_content) >= 2
  /\ calls = 1
  /\ response.code = 200
  /\ response.body.sections = <<>>
  /\ response.body.total_text_items = Len(text_content)

\* C16 (no interference): under every interleaving of two invocations, the
\* result map of each holds what the invocation alone has built from the
\* fragments it has processed, and each returns what it returns alone.
C16_NoInterference ==
  \A t \in Invocations :
    LET f == frames[t]
    IN  /\ f.pc = "loop" =>
             f.found_sections =
               analyze_items(<<>>, SubSeq(f.text_content, 1, f.idx), 1)
        /\ f.pc = "done" =>
             f.sections = analyze_mortgage_sections(f.text_content)

\* C16 witness: both invocations are in the middle of their loops, on
\* different fragment sequences, each with a result map of its own.
C16_Witness ==
  /\ \A t \in Invocations :
        /\ frames[t].pc = "loop"
        /\ frames[t].idx = 1
        /\ Len(frames[t].text_content) = 2
        /\ frames[t].found_sections # <<>>
  /\ frames[1].text_content # frames[2].text_content
  /\ frames[1].found_sections # frames[2].found_sections

\* The rank of a confidence: high above medium.
tier_rank(c) == IF c = "high" THEN 2 ELSE IF c = "medium" THEN 1 ELSE 0

\* The highest confidence among the fragments at the positions that match
\* rule r.
highest_confidence(positions, r) ==
  IF \E i \in positions :
        claimed_confidence[text_content[i].text][r] = "high"
  THEN "high"
  ELSE "medium"

\* What a list of records says about confidences: section_type and
\* confidence of each record.
confidence_view(list) ==
  {<<list[s].section_type, list[s].confidence>> : s \in 1..Len(list)}

\* Each record, and each returned record, has the highest confidence among
\* the processed fragments matching its rule.
confidence_is_highest ==
  /\ \A r \in RuleIndexes :
        dict_has(found_sections, section_rules[r].label) =>
           record_of(found_sections, r).confidence
             = highest_confidence(matching_processed(r), r)
  /\ Finished =>
        \A s \in 1..Len(sections) :
           LET r == rule_index(sections[s].section_type)
           IN  sections[s].confidence
                 = highest_confidence(
                     {i \in 1..Len(text_content) : rule_matches(r, text_content[i])}, r)

\* Exchanging any two fragments leaves labels and confidences of the output
\* alone; every permutation is a chain of exchanges.
confidence_of_any_order ==
  Finished =>
    \A i, j \in 1..Len(text_content) :
       i < j =>
         confidence_view(analyze_mortgage_sections(swapped(text_content, i, j)))
           = confidence_view(sections)

\* No step removes a record or lowers the rank of its confidence.
confidence_never_drops ==
  \A r \in RuleIndexes :
     dict_has(found_sections, section_rules[r].label) =>
        /\ dict_has(found_sections', section_rules[r].label)
        /\ tier_rank(record_of(found_sections', r).confidence)
             >= tier_rank(record_of(found_sections, r).confidence)

\* C17 (monotone confidence): while fragments are processed the confidence
\* of a label never decreases in rank; the final confidence of a label is
\* the highest among the fragments matching its rule; labels and
\* confidences of the output are the same for every order of the fragments.
C17_ConfidenceMonotone ==
  /\ [](confidence_is_highest /\ confidence_of_any_order)
  /\ [][confidence_never_drops]_vars

\* C17 witness: a rule matched a fragment with medium, then one with high,
\* then one with medium again, and the returned record is high.
C17_Witness ==
  /\ Finished
  /\ \E r \in RuleIndexes :
        /\ \E i, j, k \in 1..Len(text_content) :
              /\ i < j /\ j < k
              /\ claimed_confidence[text_content[i].text][r] = "medium"
              /\ claimed_confidence[text_content[j].text][r] = "high"
              /\ claimed_confidence[text_content[k].text][r] = "medium"
        /\ \E s \in 1..Len(sections) :
              /\ sections[s].section_type = section_rules[r].label
              /\ sections[s].confidence = "high"

\* The first 100 characters of a text.
first_hundred(s) == [k \in 1..(IF Len(s) < 100 THEN Len(s) ELSE 100) |-> s[k]]

\* The record of rule r's label is taken from the fragment: page and
\* snippet are the fragment's, confidence and pattern those of the match
\* of the rule in the fragment, the pattern one of the rule that the
\* uppercased text contains.
taken_from(rec, r, item) ==
  /\ rule_matches(r, item)
  /\ rec.page = item.page
  /\ rec.text_snippet = first_hundred(item.text)
  /\ rec.confidence = claimed_confidence[item.text][r]
  /\ rec.pattern_matched = first_contained(r, item.text)
  /\ \E k \in contained_patterns[item.text][r] :
        section_rules[r].patterns[k] = rec.pattern_matched

\* Every record is taken from one processed fragment, and its snippet is
\* of 100 characters at most.
coherent_records ==
  \A r \in RuleIndexes :
     dict_has(found_sections, section_rules[r].label) =>
        LET rec == record_of(found_sections, r)
        IN  /\ \E i \in Processed : taken_from(rec, r, text_content[i])
            /\ Len(rec.text_snippet) <= 100
            /\ rec.section_type = section_rules[r].label

\* A step of the loop that writes to a record writes page, confidence,
\* snippet and pattern of the fragment of the step.
written_together ==
  (pc = "loop" /\ idx' = idx + 1) =>
    \A r \in RuleIndexes :
       LET label == section_rules[r].label
       IN  dict_has(found_sections', label) =>
             \/ /\ dict_has(found_sections, label)
                /\ record_of(found_sections', r) = record_of(found_sections, r)
             \/ taken_from(record_of(found_sections', r), r, text_content[idx + 1])

\* C18 (record coherence): after every processed fragment, page,
\* confidence, text_snippet and pattern_matched of each record come from one
\* fragment and are written together; the uppercased text of the fragment
\* contains pattern_matched, a pattern of the rule of the record's label;
\* text_snippet is the first 100 characters of the fragment's text as given.
C18_RecordCoherence == []coherent_records /\ [][written_together]_vars

\* C18 witness: a record inserted from one fragment was rewritten from a
\* later fragment of more than 100 characters on another page.
C18_Witness ==
  /\ pc = "loop"
  /\ idx >= 2
  /\ text_content[1].text = TextDeedOfTrust
  /\ text_content[2].text = TextLongInstrument
  /\ text_content[1].page # text_content[2].page
  /\ dict_has(found_sections, section_rules[1].label)
  /\ LET rec == record_of(found_sections, 1)
     IN  /\ rec.page = text_content[2].page
         /\ Len(rec.text_snippet) = 100
         /\ Len(text_content[2].text) > 100
         /\ rec.text_snippet # str_upper(rec.text_snippet)
         /\ rec.confidence = "high"

=============================================================================
